---- MODULE Spec2Model ----
(***************************************************************************)
(* FlashcardGenerator (src/flaschcard_generator.py): the category-planning *)
(* workflow  create_categories -> select_next_category ->                  *)
(* create_flashcards -> select_next_category -> ... -> END, driven by      *)
(* generate_flashcards under a recursion limit of 25 graph steps.          *)
(*                                                                         *)
(* Text is a sequence of tokens.  A token is a character (" ", "\n", "[",  *)
(* "]", ","), a whole word (a category name, "json", prose), the code      *)
(* fence, or a JSON scalar/object written without inner whitespace.        *)
(* The empty Python string is the empty sequence.                          *)
(***************************************************************************)
EXTENDS Integers, Sequences, FiniteSets, TLC

VARIABLES
    pc,              \* where generate_flashcards is: "ready", "running", "returned", "raised"
    study_materials, \* the argument of generate_flashcards (a Python value)
    state,           \* the workflow State: study_materials, categories, flashcards, current_category, end
    node,            \* the node the graph runs next, or "END"
    trace,           \* the nodes the graph has run, in order (one per graph step)
    invocations,     \* every llm.invoke issued: its stage, category scope, outcome and response
    generated,       \* what each create_flashcards step wrote: category and flashcard list
    result,          \* the dict generate_flashcards returned
    raised,          \* the exception that left generate_flashcards, or "none"
    file_path,       \* what _write_results_to_file returned
    gateway          \* the model gateway of the run: "short", "long" or "fenced" responses

vars ==
    <<pc, study_materials, state, node, trace, invocations, generated, result, raised,
      file_path, gateway>>

-----------------------------------------------------------------------------
(* Bounds of the model *)

\* longest Category Planner response, in tokens, of the short runs
MaxPlanLen == 4
\* most lines of a Category Planner response of the long runs
MaxLong == 13
\* longest content, in tokens, put between fences in the fenced runs
MaxInnerLen == 3

-----------------------------------------------------------------------------
(* Python values and text *)

NL == "\n"
SP == " "
\* the three backticks of a code fence, one token
FENCE == "<fence>"

Whitespace == {SP, NL}

PyStr(s) == [type |-> "str", num |-> 0, str |-> s]
PyInt(n) == [type |-> "int", num |-> n, str |-> <<>>]
PyNone == [type |-> "NoneType", num |-> 0, str |-> <<>>]

\* bool(v) of Python
Truthy(v) ==
    CASE v.type = "str" -> Len(v.str) > 0
      [] v.type = "int" -> v.num # 0
      [] OTHER -> FALSE

RECURSIVE LStrip(_)
\* str.lstrip(): drop the leading whitespace
LStrip(s) ==
    IF s # <<>> /\ Head(s) \in Whitespace THEN LStrip(Tail(s)) ELSE s

RECURSIVE RStrip(_)
\* str.rstrip(): drop the trailing whitespace
RStrip(s) ==
    IF s # <<>> /\ s[Len(s)] \in Whitespace THEN RStrip(SubSeq(s, 1, Len(s) - 1)) ELSE s

\* str.strip()
Strip(s) == RStrip(LStrip(s))

RECURSIVE SplitFrom(_, _, _)
\* the lines of s from token i on, cur being the line read so far
SplitFrom(s, i, cur) ==
    IF i > Len(s) THEN <<cur>>
    ELSE IF s[i] = NL THEN <<cur>> \o SplitFrom(s, i + 1, <<>>)
    ELSE SplitFrom(s, i + 1, Append(cur, s[i]))

\* s.split("\n"): always at least one line, "" for the empty string
SplitLines(s) == SplitFrom(s, 1, <<>>)

RECURSIVE JoinLines(_)
\* "\n".join(lines)
JoinLines(lines) ==
    IF lines = <<>> THEN <<>>
    ELSE IF Len(lines) = 1 THEN lines[1]
    ELSE lines[1] \o <<NL>> \o JoinLines(Tail(lines))

\* s.startswith(fence)
StartsWithFence(s) == s # <<>> /\ s[1] = FENCE

\* s.endswith(fence)
EndsWithFence(s) == s # <<>> /\ s[Len(s)] = FENCE

-----------------------------------------------------------------------------
(* Category Planner: lines 161-163 *)

\* StripNonBlank without the "if cat.strip()" filter
StripKeepsBlank(lines) == [i \in 1..Len(lines) |-> Strip(lines[i])]

RECURSIVE StripNonBlank(_)
\* [cat.strip() for cat in lines if cat.strip()]
StripNonBlank(lines) ==
    IF lines = <<>> THEN <<>>
    ELSE IF Strip(Head(lines)) # <<>>
         THEN <<Strip(Head(lines))>> \o StripNonBlank(Tail(lines))
         ELSE StripNonBlank(Tail(lines))

RECURSIVE DropRepeats(_)
\* lines without those equal to an earlier line
DropRepeats(lines) ==
    IF lines = <<>> THEN <<>>
    ELSE LET front == SubSeq(lines, 1, Len(lines) - 1) IN
         IF \E i \in 1..Len(front) : front[i] = lines[Len(lines)]
         THEN DropRepeats(front)
         ELSE Append(DropRepeats(front), lines[Len(lines)])

\* ExtractCategories of a planner that deduplicates
ExtractDistinctCategories(content) == DropRepeats(StripNonBlank(SplitLines(content)))

\* the categories read from the planner's response
ExtractCategories(content) == StripNonBlank(SplitLines(content))

-----------------------------------------------------------------------------
(* JSON: json.loads on a token sequence *)

JDict(entries) == [type |-> "dict", val |-> entries]
JList(elems) == [type |-> "list", val |-> elems]
JStr(s) == [type |-> "str", val |-> <<s>>]
JNum(n) == [type |-> "int", val |-> <<n>>]

\* a flashcard object as the model writes it
Card(q, a) == JDict(<<[key |-> "question", val |-> q], [key |-> "answer", val |-> a]>>)

\* the tokens that are a JSON scalar or object, and the value each parses to
JsonAtoms ==
    [t \in {"{question:Q1,answer:A1}", "{question:Q2,answer:A2}", "{question:,answer:A1}",
            "{question:Q1,answer:}", "{question:Q1}", "{answer:A1}", "{}", "7", "str"} |->
        CASE t = "{question:Q1,answer:A1}" -> Card("Q1", "A1")
          [] t = "{question:Q2,answer:A2}" -> Card("Q2", "A2")
          [] t = "{question:,answer:A1}" -> Card("", "A1")
          [] t = "{question:Q1,answer:}" -> Card("Q1", "")
          [] t = "{question:Q1}" -> JDict(<<[key |-> "question", val |-> "Q1"]>>)
          [] t = "{answer:A1}" -> JDict(<<[key |-> "answer", val |-> "A1"]>>)
          [] t = "{}" -> JDict(<<>>)
          [] t = "7" -> JNum("7")
          [] t = "str" -> JStr("s")]

RECURSIVE SkipWs(_, _)
\* the first index from i on that holds no whitespace
SkipWs(t, i) == IF i <= Len(t) /\ t[i] \in Whitespace THEN SkipWs(t, i + 1) ELSE i

JFail == [ok |-> FALSE, val |-> JList(<<>>), next |-> 0]

RECURSIVE ParseValue(_, _)
RECURSIVE ParseElems(_, _, _)
\* one JSON value starting at or after index i
ParseValue(t, i) ==
    LET j == SkipWs(t, i) IN
    IF j > Len(t) THEN JFail
    ELSE IF t[j] \in DOMAIN JsonAtoms THEN [ok |-> TRUE, val |-> JsonAtoms[t[j]], next |-> j + 1]
    ELSE IF t[j] = "["
         THEN LET k == SkipWs(t, j + 1) IN
              IF k <= Len(t) /\ t[k] = "]"
              THEN [ok |-> TRUE, val |-> JList(<<>>), next |-> k + 1]
              ELSE ParseElems(t, k, <<>>)
    ELSE JFail

\* the elements of an array after its "[", acc being those read so far
ParseElems(t, i, acc) ==
    LET v == ParseValue(t, i) IN
    IF ~v.ok THEN JFail
    ELSE LET k == SkipWs(t, v.next) IN
         IF k > Len(t) THEN JFail
         ELSE IF t[k] = "," THEN ParseElems(t, k + 1, Append(acc, v.val))
         ELSE IF t[k] = "]" THEN [ok |-> TRUE, val |-> JList(Append(acc, v.val)), next |-> k + 1]
         ELSE JFail

\* json.loads(content): ok is FALSE where it raises JSONDecodeError
JsonLoads(content) ==
    LET v == ParseValue(content, 1) IN
    IF v.ok /\ SkipWs(content, v.next) > Len(content) THEN v ELSE JFail

-----------------------------------------------------------------------------
(* Generation Stage: lines 244-272 *)

\* StripFences with [1:] in place of [1:-1]: the closing fence stays
StripFencesKeepsLast(raw) ==
    LET content == Strip(raw) IN
    IF StartsWithFence(content) /\ EndsWithFence(content)
    THEN LET lines == SplitLines(content) IN
         Strip(JoinLines(SubSeq(lines, 2, Len(lines))))
    ELSE content

\* lines 245-251: strip, and drop the first and last line of a fenced response
StripFences(raw) ==
    LET content == Strip(raw) IN
    IF StartsWithFence(content) /\ EndsWithFence(content)
    THEN LET lines == SplitLines(content) IN
         Strip(JoinLines(SubSeq(lines, 2, Len(lines) - 1)))
    ELSE content

\* d has the key k ("k in d" of Python)
HasKey(d, k) == \E i \in 1..Len(d.val) : d.val[i].key = k

\* the test of lines 263-267: card is a dict with both keys
WellFormedCard(card) ==
    card.type = "dict" /\ HasKey(card, "question") /\ HasKey(card, "answer")

\* lines 258-272: the parsed list, or [] on JSONDecodeError or ValueError
ValidateFlashcards(content) ==
    LET p == JsonLoads(content) IN
    IF ~p.ok THEN <<>>
    ELSE IF p.val.type # "list" THEN <<>>
    ELSE IF \E i \in 1..Len(p.val.val) : ~WellFormedCard(p.val.val[i]) THEN <<>>
    ELSE p.val.val

\* the flashcard list create_flashcards derives from the model's response
FlashcardsOf(raw) == ValidateFlashcards(StripFences(raw))

-----------------------------------------------------------------------------
(* Python dict with insertion order: a sequence of [key, val], keys distinct *)

DictKeys(d) == [i \in 1..Len(d) |-> d[i].key]

DictHas(d, k) == \E i \in 1..Len(d) : d[i].key = k

\* d[k], for a key d has
DictGet(d, k) == d[CHOOSE i \in 1..Len(d) : d[i].key = k].val

\* DictSet of {k: v, **d}: a new key goes first
DictSetPrepends(d, k, v) ==
    IF \E i \in 1..Len(d) : d[i].key = k
    THEN [i \in 1..Len(d) |-> IF d[i].key = k THEN [key |-> k, val |-> v] ELSE d[i]]
    ELSE <<[key |-> k, val |-> v]>> \o d

\* DictSet of a dict literal without the ** of the old mapping
DictSetFresh(d, k, v) == <<[key |-> k, val |-> v]>>

\* {**d, k: v}: a present key keeps its place and takes v, a new key goes last
DictSet(d, k, v) ==
    IF DictHas(d, k)
    THEN [i \in 1..Len(d) |-> IF d[i].key = k THEN [key |-> k, val |-> v] ELSE d[i]]
    ELSE Append(d, [key |-> k, val |-> v])

-----------------------------------------------------------------------------
(* The workflow: lines 52-79, and the nodes' updates *)

\* line 334
RecursionLimit == 25

StateKeys == {"study_materials", "categories", "flashcards", "current_category", "end"}

\* lines 326-332
InitialState(materials) ==
    [study_materials |-> materials,
     categories |-> <<>>,
     flashcards |-> <<>>,
     current_category |-> <<>>,
     end |-> FALSE]

\* Merge of a graph that starts each step from a fresh state
MergeResets(st, update) ==
    [k \in StateKeys |-> IF k \in DOMAIN update THEN update[k] ELSE InitialState(<<>>)[k]]

\* the graph writes a node's update into the state: the keys of the update
\* take its values, the other keys keep theirs
Merge(st, update) ==
    [k \in StateKeys |-> IF k \in DOMAIN update THEN update[k] ELSE st[k]]

\* line 165: the update of create_categories for the response content
CategoriesUpdate(st, content) == [categories |-> ExtractCategories(content)]

\* FlashcardsUpdate without "**state.get(...)" when the list is empty
FlashcardsUpdateDropsOthers(st, flashcards) ==
    IF flashcards = <<>>
    THEN [flashcards |-> <<[key |-> st.current_category, val |-> <<>>]>>]
    ELSE [flashcards |-> DictSet(st.flashcards, st.current_category, flashcards)]

\* lines 274-279: the update of create_flashcards, flashcards being the list
\* validated from the response
FlashcardsUpdate(st, flashcards) ==
    [flashcards |-> DictSet(st.flashcards, st.current_category, flashcards)]

\* SelectUpdate that leaves current_category as it was when the queue is empty
SelectUpdateKeepsCurrent(st) ==
    IF st.categories # <<>>
    THEN [categories |-> Tail(st.categories),
          current_category |-> Head(st.categories),
          flashcards |-> st.flashcards,
          end |-> FALSE]
    ELSE [categories |-> <<>>,
          current_category |-> st.current_category,
          flashcards |-> st.flashcards,
          end |-> TRUE]

\* SelectUpdate with pop() in place of pop(0)
SelectUpdatePopsLast(st) ==
    IF st.categories # <<>>
    THEN [categories |-> SubSeq(st.categories, 1, Len(st.categories) - 1),
          current_category |-> st.categories[Len(st.categories)],
          flashcards |-> st.flashcards,
          end |-> FALSE]
    ELSE [categories |-> <<>>,
          current_category |-> <<>>,
          flashcards |-> st.flashcards,
          end |-> TRUE]

\* lines 294-310: the update of select_next_category
SelectUpdate(st) ==
    IF st.categories # <<>>
    THEN [categories |-> Tail(st.categories),
          current_category |-> Head(st.categories),
          flashcards |-> st.flashcards,
          end |-> FALSE]
    ELSE [categories |-> <<>>,
          current_category |-> <<>>,
          flashcards |-> st.flashcards,
          end |-> TRUE]

\* should_continue without the "not"
should_continue_inverted(st) == st.end

\* lines 64-65
should_continue(st) == ~st.end

\* lines 68-72: the node after select_next_category
AfterSelect(st) == IF should_continue(st) THEN "create_flashcards" ELSE "END"

\* ValidMaterials without the isinstance test
ValidMaterialsTruthyOnly(m) == Truthy(m)

\* line 322: the materials generate_flashcards accepts
ValidMaterials(m) == ~(~Truthy(m) \/ m.type # "str")

\* OkResult that leaves out the categories with no flashcards
OkResultDropsEmpty(st) == [flashcards |-> SelectSeq(st.flashcards, LAMBDA entry : entry.val # <<>>)]

\* line 341
OkResult(st) == [flashcards |-> st.flashcards]

\* ErrorResult without the error key
ErrorResultSilent(e) == [flashcards |-> <<>>]

\* line 347: e is str(e) of the exception caught
ErrorResult(e) == [flashcards |-> <<>>, error |-> e]

\* OutOfSteps of a graph invoked without a recursion limit
OutOfStepsNever(n) == FALSE

\* the graph raises GraphRecursionError once it has run RecursionLimit steps
\* without reaching END
OutOfSteps(n) == n >= RecursionLimit

-----------------------------------------------------------------------------
(* What the caller and the model gateway may supply *)

\* arguments of generate_flashcards: strings (one empty) and values of other types
MaterialValues ==
    {PyStr(<<>>), PyStr(<<"photosynthesis">>), PyStr(<<"mitosis">>), PyNone, PyInt(0), PyInt(5)}

PlannerTokens == {"A", "B", SP, NL}

RECURSIVE TextsUpTo(_, _)
\* every text of at most n tokens over the alphabet
TextsUpTo(alphabet, n) ==
    IF n = 0 THEN {<<>>}
    ELSE LET shorter == TextsUpTo(alphabet, n - 1) IN
         shorter \cup {Append(t, c) : t \in shorter, c \in alphabet}

\* Category Planner responses of the short runs
PlannerResponses == TextsUpTo(PlannerTokens, MaxPlanLen)

\* the n-th of the distinct category names of the long runs
LongName(n) == "c" \o ToString(n)

\* n distinct names, one per line
LongResponse(n) == JoinLines([i \in 1..n |-> <<LongName(i)>>])

\* Category Planner responses of the long runs: 0..MaxLong distinct names
LongPlannerResponses == {LongResponse(n) : n \in 0..MaxLong}

GoodResponse == <<"[", "{question:Q1,answer:A1}", "]">>

ProseResponse == <<"Sorry", SP, "no", SP, "cards">>

\* Generation Stage responses of the short runs
GenResponses ==
    {GoodResponse,
     <<"[", "{question:Q1,answer:A1}", ",", NL, "{question:Q2,answer:A2}", "]">>,
     <<FENCE, "json", NL, "[", "{question:Q2,answer:A2}", "]", NL, FENCE>>,
     <<"[", "]">>,
     ProseResponse,
     <<"{question:Q1,answer:A1}">>,
     <<"[", "{question:Q1,answer:A1}", ",", "7", "]">>,
     <<"[", "{question:Q1}", "]">>,
     <<"[", "{question:,answer:A1}", "]">>}

\* Generation Stage responses of the long runs
LongGenResponses == {GoodResponse, ProseResponse}

InnerTokens == {FENCE, NL, SP, "[", "]", "{question:Q1,answer:A1}"}

\* what the fenced runs put between fences: every short text, and every
\* Generation Stage response of the short runs (one of them fenced itself)
InnerContents == TextsUpTo(InnerTokens, MaxInnerLen) \cup GenResponses

\* the first line of a fenced block: the fence, bare or with its language tag
FenceOpeners == {<<FENCE>>, <<FENCE, "json">>}

\* content between an opening fence line and a closing fence line
Wrap(opener, content) == opener \o <<NL>> \o content \o <<NL, FENCE>>

\* Generation Stage responses of the fenced runs: each content bare and fenced
FencedGenResponses ==
    InnerContents \cup {Wrap(opener, content) : opener \in FenceOpeners, content \in InnerContents}

\* the gateways: the short one answers with any short text and any of the
\* Generation Stage responses, the long one plans up to MaxLong categories,
\* the fenced one plans one category and answers with fenced and bare content
Gateways == {"short", "long", "fenced"}

\* what the gateway g may return to the Category Planner
PlannerPool(g) ==
    CASE g = "long" -> LongPlannerResponses
      [] g = "fenced" -> {<<"A">>}
      [] OTHER -> PlannerResponses

\* what the gateway g may return to the Generation Stage
GenPool(g) ==
    CASE g = "long" -> LongGenResponses
      [] g = "fenced" -> FencedGenResponses
      [] OTHER -> GenResponses

\* FlashcardsOf of every response a gateway may return, computed once
Validated ==
    [content \in GenResponses \cup LongGenResponses \cup FencedGenResponses |->
        FlashcardsOf(content)]

\* str(e) of what llm.invoke may raise
GatewayErrors == {"timeout", "connection reset"}

\* str(e) of the graph's GraphRecursionError
RecursionError == "Recursion limit of 25 reached without hitting a stop condition"

OutputFile == "flashcards_output.txt"

\* WriteResults without the try/except of lines 357-369
WriteResultsUncaught(written) ==
    [path |-> IF written THEN OutputFile ELSE "none", raises |-> ~written]

\* lines 349-369: _write_results_to_file returns the path, or "" when writing
\* failed; the failure is caught inside and nothing is raised
WriteResults(written) ==
    [path |-> IF written THEN OutputFile ELSE "", raises |-> FALSE]

-----------------------------------------------------------------------------
(* The run *)

Init ==
    /\ pc = "ready"
    /\ study_materials \in MaterialValues
    /\ state = InitialState(PyNone)
    /\ node = "none"
    /\ trace = <<>>
    /\ invocations = <<>>
    /\ generated = <<>>
    /\ result = <<>>
    /\ raised = "none"
    /\ file_path = "none"
    /\ gateway \in Gateways

\* outcome is "returned", or str(e) of the exception raised (no response then)
Invocation(stage, category, outcome, response) ==
    [stage |-> stage, category |-> category, outcome |-> outcome, response |-> response]

\* Fail of a handler that swallows the exception and lets the node run again
FailAndRetry(e) ==
    UNCHANGED <<pc, study_materials, state, node, trace, generated, result, raised,
                file_path, gateway>>

\* Fail of an except branch that returns the flashcards generated so far
FailKeepsPartial(e) ==
    /\ pc' = "returned"
    /\ result' = [flashcards |-> state.flashcards, error |-> e]
    /\ UNCHANGED <<study_materials, state, node, trace, generated, raised, file_path, gateway>>

\* lines 324-347, the except branch: the run ends with an error result
Fail(e) ==
    /\ pc' = "returned"
    /\ result' = ErrorResult(e)
    /\ UNCHANGED <<study_materials, state, node, trace, generated, raised, file_path, gateway>>

\* lines 322-323: invalid materials raise ValueError, outside the try
EnterInvalid ==
    /\ pc = "ready"
    /\ ~ValidMaterials(study_materials)
    /\ pc' = "raised"
    /\ raised' = "ValueError: Invalid study materials provided"
    /\ UNCHANGED <<study_materials, state, node, trace, invocations, generated, result, file_path, gateway>>

\* lines 324-334: the initial state is built and the graph entered at create_categories
Enter ==
    /\ pc = "ready"
    /\ ValidMaterials(study_materials)
    /\ pc' = "running"
    /\ state' = InitialState(study_materials.str)
    /\ node' = "create_categories"
    /\ UNCHANGED <<study_materials, trace, invocations, generated, result, raised, file_path, gateway>>

\* a graph step is due: the run is in the graph, the node is next, the limit not reached
Due(n) == pc = "running" /\ node = n /\ ~OutOfSteps(Len(trace))

\* lines 140-165, the model returning a response
CreateCategories ==
    /\ Due("create_categories")
    /\ \E content \in PlannerPool(gateway) :
        /\ state' = Merge(state, CategoriesUpdate(state, content))
        /\ invocations' = Append(invocations, Invocation("create_categories", <<>>, "returned", content))
    /\ trace' = Append(trace, "create_categories")
    /\ node' = "select_next_category"
    /\ UNCHANGED <<pc, study_materials, generated, result, raised, file_path, gateway>>

\* lines 157-159 raising: the exception reaches the except of generate_flashcards
CreateCategoriesFails ==
    /\ Due("create_categories")
    /\ \E e \in GatewayErrors :
        /\ invocations' = Append(invocations, Invocation("create_categories", <<>>, e, <<>>))
        /\ Fail(e)

\* lines 281-310, and the conditional edge of lines 68-72
SelectNextCategory ==
    /\ Due("select_next_category")
    /\ state' = Merge(state, SelectUpdate(state))
    /\ trace' = Append(trace, "select_next_category")
    /\ node' = AfterSelect(Merge(state, SelectUpdate(state)))
    /\ UNCHANGED <<pc, study_materials, invocations, generated, result, raised, file_path, gateway>>

\* lines 167-279, the model returning a response
CreateFlashcards ==
    /\ Due("create_flashcards")
    /\ \E content \in GenPool(gateway) :
        LET update == FlashcardsUpdate(state, Validated[content]) IN
        /\ state' = Merge(state, update)
        /\ invocations' =
              Append(invocations,
                     Invocation("create_flashcards", state.current_category, "returned", content))
        /\ generated' =
              Append(generated, [key |-> state.current_category,
                                 val |-> DictGet(update.flashcards, state.current_category)])
    /\ trace' = Append(trace, "create_flashcards")
    /\ node' = "select_next_category"
    /\ UNCHANGED <<pc, study_materials, result, raised, file_path, gateway>>

\* lines 239-242 raising
CreateFlashcardsFails ==
    /\ Due("create_flashcards")
    /\ \E e \in GatewayErrors :
        /\ invocations' =
              Append(invocations, Invocation("create_flashcards", state.current_category, e, <<>>))
        /\ Fail(e)

\* line 334 raising GraphRecursionError: RecursionLimit steps were run
LimitExceeded ==
    /\ pc = "running"
    /\ node # "none"
    /\ OutOfSteps(Len(trace))
    /\ UNCHANGED invocations
    /\ Fail(RecursionError)

\* lines 335-341: the graph reached END; the file is written (or not) and the result returned
Finish ==
    /\ Due("END")
    /\ pc' = "returned"
    /\ \E written \in BOOLEAN :
          LET w == WriteResults(written) IN
          /\ file_path' = w.path
          /\ result' = IF w.raises THEN ErrorResult("OSError") ELSE OkResult(state)
    /\ UNCHANGED <<study_materials, state, node, trace, invocations, generated, raised, gateway>>

Next ==
    \/ EnterInvalid
    \/ Enter
    \/ CreateCategories
    \/ CreateCategoriesFails
    \/ SelectNextCategory
    \/ CreateFlashcards
    \/ CreateFlashcardsFails
    \/ LimitExceeded
    \/ Finish

Spec == Init /\ [][Next]_vars

\* every stage completes: a model call returns or fails, a due step is taken
FairSpec == Spec /\ WF_vars(Next)

-----------------------------------------------------------------------------
(* Vocabulary of the properties *)

Returned == pc = "returned"

HasError == Returned /\ "error" \in DOMAIN result

NoError == Returned /\ "error" \notin DOMAIN result

\* the Category Planner was called and its call returned
Planned == Len(invocations) >= 1 /\ invocations[1].outcome = "returned"

\* the Category Planner's response
PlanResponse == invocations[1].response

\* the number of lines of the response with a token that is not whitespace
NonBlankLineCount ==
    Cardinality({i \in 1..Len(SplitLines(PlanResponse)) :
                    \E j \in 1..Len(SplitLines(PlanResponse)[i]) :
                        SplitLines(PlanResponse)[i][j] \notin Whitespace})

\* the response is N names, one token each, on N lines, all distinct
DistinctNames(content) ==
    /\ \A i \in 1..Len(content) : (i % 2 = 0) <=> (content[i] = NL)
    /\ \A i \in 1..Len(content) : content[i] # SP
    /\ \A i, j \in 1..Len(content) : content[i] = content[j] /\ content[i] # NL => i = j
    /\ (content # <<>> => Len(content) % 2 = 1)

\* the names of such a response, in order
NamesOf(content) == [i \in 1..((Len(content) + 1) \div 2) |-> <<content[2 * i - 1]>>]

\* the categories of the create_flashcards steps made so far, in order
GeneratedKeys == [i \in 1..Len(generated) |-> generated[i].key]

AllCallsReturned == \A i \in 1..Len(invocations) : invocations[i].outcome = "returned"

\* some model call raised
SomeCallFailed == \E i \in 1..Len(invocations) : invocations[i].outcome # "returned"

\* the number of times node n was run
Visits(n) == Cardinality({i \in 1..Len(trace) : trace[i] = n})

Halted == pc \in {"returned", "raised"}

-----------------------------------------------------------------------------
(* C1 *)

\* C1 as stated: for every N and every planner response of N distinct names,
\* a run whose model calls all return ends having made the N create_flashcards
\* steps in planned order, with categories empty and end = TRUE.
C1_AnyLengthCompletes ==
    (Returned /\ Planned /\ AllCallsReturned /\ DistinctNames(PlanResponse))
        => /\ GeneratedKeys = NamesOf(PlanResponse)
           /\ state.categories = <<>>
           /\ state.end = TRUE

\* C1 amended: the same for N with 2N + 2 < RecursionLimit (N <= 11); at every
\* moment of such a run the create_flashcards steps made are the first planned
\* names in order, and the run is never stuck before it returns.
C1_WithinLimitCompletes ==
    (Planned /\ AllCallsReturned /\ DistinctNames(PlanResponse)
        /\ 2 * Len(NamesOf(PlanResponse)) + 2 < RecursionLimit)
        => /\ Len(generated) <= Len(NamesOf(PlanResponse))
           /\ GeneratedKeys = SubSeq(NamesOf(PlanResponse), 1, Len(generated))
           /\ Visits("create_flashcards") = Len(generated)
           /\ ~Returned => ENABLED Next
           /\ Returned =>
                /\ NoError
                /\ Len(generated) = Len(NamesOf(PlanResponse))
                /\ state.categories = <<>>
                /\ state.end = TRUE

\* a run of 11 distinct categories has returned without error
C1_Witness ==
    /\ NoError /\ Planned /\ AllCallsReturned
    /\ DistinctNames(PlanResponse)
    /\ Len(generated) = 11
    /\ Len(trace) = 24

-----------------------------------------------------------------------------
(* C2 *)

\* C2 as stated: whatever the materials and the gateway do, generate_flashcards
\* returns a result with a flashcard collection (and maybe an error string), and
\* no exception leaves it.
C2_NeverRaises ==
    /\ pc # "raised"
    /\ raised = "none"
    /\ Returned => "flashcards" \in DOMAIN result

-----------------------------------------------------------------------------
(* C3 *)

\* every category the planner's response names (a non-blank line, stripped)
\* has an entry in the mapping d
CoversPlan(d) ==
    \A i \in 1..Len(SplitLines(PlanResponse)) :
        LET line == SplitLines(PlanResponse)[i] IN
        (\E j \in 1..Len(line) : line[j] \notin Whitespace) => DictHas(d, Strip(line))

\* C3: a run that has run RecursionLimit steps returns an error result, and a
\* result without error has an entry for every planned category.
C3_CeilingIsAnError ==
    /\ (Returned /\ Len(trace) >= RecursionLimit) => HasError /\ result.error = RecursionError
    /\ (NoError /\ Planned) => CoversPlan(result.flashcards)

\* the ceiling was hit with a category still in the queue
C3_Witness ==
    /\ HasError /\ result.error = RecursionError
    /\ state.categories # <<>>
    /\ Len(generated) = 12

-----------------------------------------------------------------------------
(* C4 *)

\* C4: if every model call returns or fails, every run halts, at END or with
\* an error result (or, for invalid materials, with the ValueError), and
\* never runs more than RecursionLimit graph steps.
C4_HaltsWithinLimit ==
    /\ [](Len(trace) <= RecursionLimit)
    /\ [](Returned => (node = "END" \/ HasError))
    /\ <>Halted

\* a planner response too long for the limit: the run halted at step 25
C4_Witness ==
    /\ Halted
    /\ Len(trace) = RecursionLimit
    /\ Planned /\ NonBlankLineCount > 12

-----------------------------------------------------------------------------
(* C5 *)

\* C5: a failed model call is the last call of the run (it is not issued again
\* and no stage runs after it); the run has returned the error result whose
\* error is the failure's text, and nothing more happens.
C5_FailureEndsRun ==
    \A i \in 1..Len(invocations) :
        invocations[i].outcome # "returned"
            => /\ i = Len(invocations)
               /\ Returned
               /\ result = [flashcards |-> <<>>, error |-> invocations[i].outcome]
               /\ ~ENABLED Next

\* the Generation Stage of the second category failed
C5_Witness ==
    /\ Len(invocations) = 3
    /\ invocations[3].stage = "create_flashcards"
    /\ invocations[3].outcome = "timeout"
    /\ Len(generated) = 1
    /\ HasError

-----------------------------------------------------------------------------
(* C6 *)

\* the materials are empty or not a string
InvalidMaterials == study_materials.type # "str" \/ study_materials.str = <<>>

\* C6: with empty or wrong-typed materials the run fails at once: the only
\* step there is raises, no model call is ever issued and the graph takes no step.
C6_InvalidInputNoCall ==
    InvalidMaterials
        => /\ pc \in {"ready", "raised"}
           /\ pc = "ready" => ENABLED EnterInvalid /\ ~ENABLED Enter
           /\ pc = "raised" => raised # "none"
           /\ invocations = <<>>
           /\ trace = <<>>
           /\ node = "none"

\* a truthy value that is not a string was refused
C6_Witness == pc = "raised" /\ study_materials = PyInt(5) /\ invocations = <<>>

-----------------------------------------------------------------------------
(* C7 *)

\* the planner's response is empty or all blank
BlankPlan == Planned /\ \A i \in 1..Len(PlanResponse) : PlanResponse[i] \in Whitespace

\* C7: after an empty or all-blank planner response the run makes no
\* create_flashcards step and no further model call; it runs create_categories,
\* one select_next_category, reaches END and returns the empty mapping with no
\* error field.
C7_NoCategoriesEndsAtOnce ==
    BlankPlan
        => /\ generated = <<>>
           /\ Len(invocations) = 1
           /\ trace \in {<<"create_categories">>, <<"create_categories", "select_next_category">>}
           /\ Len(trace) = 1 => node = "select_next_category"
           /\ Len(trace) = 2 => node = "END" /\ state.end = TRUE
           /\ ~Returned => ENABLED Next
           /\ Returned => result = [flashcards |-> <<>>] /\ Len(trace) = 2

\* a response of blank lines only was planned and the run has returned
C7_Witness == NoError /\ BlankPlan /\ PlanResponse = <<SP, NL, SP>>

-----------------------------------------------------------------------------
(* C8 *)

\* card[k], for a dict card with the key k
Field(card, k) == card.val[CHOOSE i \in 1..Len(card.val) : card.val[i].key = k].val

\* the schema of the specification: a dict with a non-empty question and a
\* non-empty answer
SchemaCard(card) ==
    /\ card.type = "dict"
    /\ HasKey(card, "question") /\ Field(card, "question") # ""
    /\ HasKey(card, "answer") /\ Field(card, "answer") # ""

\* the response, fences stripped, parses to a list of cards of the schema
SchemaValid(raw) ==
    LET p == JsonLoads(StripFences(raw)) IN
    /\ p.ok
    /\ p.val.type = "list"
    /\ \A i \in 1..Len(p.val.val) : SchemaCard(p.val.val[i])

\* the response of the i-th create_flashcards step
ResponseOf(i) == invocations[i + 1].response

\* C8 as stated: a response is accepted only if it is a list of cards with
\* non-empty question and answer, so no flashcard of a returned collection
\* has an empty question or answer.
C8_NoEmptyField ==
    /\ \A i \in 1..Len(generated) :
          generated[i].val # <<>> => SchemaValid(ResponseOf(i))
    /\ Returned =>
          \A i \in 1..Len(result.flashcards) :
              \A j \in 1..Len(result.flashcards[i].val) :
                  SchemaCard(result.flashcards[i].val[j])

-----------------------------------------------------------------------------
(* C9 *)

\* C9 as stated: for a response that is not JSON or violates the schema the
\* create_flashcards step records the empty list for its category, and the
\* graph goes on to select_next_category.
C9_MalformedYieldsEmpty ==
    \A i \in 1..Len(generated) :
        ~SchemaValid(ResponseOf(i))
            => /\ generated[i].val = <<>>
               /\ trace[2 * i + 1] = "create_flashcards"
               /\ Len(trace) = 2 * i + 1 => pc = "running" /\ node = "select_next_category"

\* the part of C9 the code keeps: a response json.loads rejects yields the
\* empty list
NonJsonYieldsEmpty ==
    \A i \in 1..Len(generated) :
        ~JsonLoads(StripFences(ResponseOf(i))).ok => generated[i].val = <<>>

-----------------------------------------------------------------------------
(* C10 *)

\* the last create_flashcards step made for the category k
LastFor(k) ==
    CHOOSE i \in 1..Len(generated) :
        generated[i].key = k /\ \A j \in (i + 1)..Len(generated) : generated[j].key # k

\* the mapping d holds, for every create_flashcards step made, what the last
\* step for that category wrote, and nothing else
HoldsGenerated(d) ==
    /\ \A i \in 1..Len(generated) :
          /\ DictHas(d, generated[i].key)
          /\ DictGet(d, generated[i].key) = generated[LastFor(generated[i].key)].val
    /\ \A i \in 1..Len(d) : \E j \in 1..Len(generated) : generated[j].key = d[i].key

\* C10: an empty list is an ordinary result.  An error result comes only from
\* a failed model call or from the step limit; after every step the mapping
\* holds what each category's last create_flashcards step wrote, empty or not;
\* the result returned without error is that mapping, with a step made for
\* every planned category.
C10_EmptyListKeepsResults ==
    /\ HasError => SomeCallFailed \/ Len(trace) >= RecursionLimit
    /\ pc \in {"running", "returned"} => HoldsGenerated(state.flashcards)
    /\ NoError => /\ result.flashcards = state.flashcards
                  /\ Len(generated) = NonBlankLineCount

\* a run returned three entries, the middle one the empty list of a response
\* that did not parse
C10_Witness ==
    /\ NoError
    /\ Len(generated) = 3 /\ Len(result.flashcards) = 3
    /\ generated[1].val # <<>>
    /\ generated[2].val = <<>> /\ ResponseOf(2) = ProseResponse
    /\ generated[3].val # <<>>
    /\ result.flashcards[2].val = <<>>

-----------------------------------------------------------------------------
(* C11 *)

\* the step taken runs the node n
Runs(n) == trace' = Append(trace, n)

\* C11: a create_flashcards step leaves every entry of the mapping whose key
\* is not current_category as it was (same key, same place, same list), gives
\* current_category an entry, and adds no other key.
C11_GeneratingKeepsOtherEntries ==
    [][Runs("create_flashcards") =>
          /\ \A i \in 1..Len(state.flashcards) :
                state.flashcards[i].key # state.current_category
                    => /\ i <= Len(state'.flashcards)
                       /\ state'.flashcards[i] = state.flashcards[i]
          /\ DictHas(state'.flashcards, state.current_category)
          /\ \A i \in 1..Len(state'.flashcards) :
                \/ state'.flashcards[i].key = state.current_category
                \/ DictHas(state.flashcards, state'.flashcards[i].key)]_vars

\* a second category was generated beside a first one that has flashcards
C11_Witness ==
    /\ pc = "running"
    /\ Len(generated) = 2
    /\ Len(state.flashcards) = 2
    /\ state.flashcards[1].val # <<>>
    /\ state.flashcards[1].key # state.current_category

-----------------------------------------------------------------------------
(* C12 *)

\* r is an opening fence line (bare or tagged json), some content, and a
\* closing fence line
IsFenced(r) ==
    /\ Len(r) >= 3
    /\ r[1] = FENCE
    /\ r[Len(r)] = FENCE /\ r[Len(r) - 1] = NL
    /\ \/ r[2] = NL
       \/ Len(r) >= 5 /\ r[2] = "json" /\ r[3] = NL

\* the content of such a response: the lines between the two fence lines
InnerOf(r) ==
    IF r[2] = NL THEN SubSeq(r, 3, Len(r) - 2) ELSE SubSeq(r, 4, Len(r) - 2)

\* the content, stripped, starts and ends with a fence of its own
FencedItself(content) ==
    StartsWithFence(Strip(content)) /\ EndsWithFence(Strip(content))

\* C12 as stated: for every fenced response the step writes the flashcards the
\* validation gives for the content alone, and what is parsed is the content
\* (stripped), the two fence lines and nothing else being removed.
C12_FenceIsTransparent ==
    \A i \in 1..Len(generated) :
        IsFenced(ResponseOf(i))
            => /\ generated[i].val = FlashcardsOf(InnerOf(ResponseOf(i)))
               /\ StripFences(ResponseOf(i)) = Strip(InnerOf(ResponseOf(i)))

\* C12 amended: the same for content that is not fenced itself.  (Only one
\* pair of fence lines is removed: for content with fences of its own the
\* inner fences stay and the parse fails, while the content alone loses them
\* and may parse.)
C12_FenceIsTransparentOnce ==
    \A i \in 1..Len(generated) :
        IsFenced(ResponseOf(i))
            => /\ StripFences(ResponseOf(i)) = Strip(InnerOf(ResponseOf(i)))
               /\ ~FencedItself(InnerOf(ResponseOf(i)))
                    => generated[i].val = FlashcardsOf(InnerOf(ResponseOf(i)))

\* a fenced list of one card was validated to that card
C12_Witness ==
    /\ Len(generated) = 1
    /\ ResponseOf(1) = Wrap(<<FENCE, "json">>, GoodResponse)
    /\ generated[1].val = <<Card("Q1", "A1")>>

-----------------------------------------------------------------------------
(* C13 *)

\* C13: when writing the file failed, _write_results_to_file returned the
\* empty path, and generate_flashcards still returned the whole mapping, with
\* no error field.
C13_WriteFailureIsNotAnError ==
    /\ file_path # "none" => NoError /\ file_path \in {"", OutputFile}
    /\ (Returned /\ node = "END" /\ file_path # OutputFile)
          => /\ file_path = ""
             /\ NoError
             /\ result = [flashcards |-> state.flashcards]
             /\ HoldsGenerated(result.flashcards)

\* the file could not be written and a mapping of two entries was returned
C13_Witness ==
    /\ Returned /\ file_path = ""
    /\ Len(result.flashcards) = 2
    /\ result.flashcards[1].val # <<>>

-----------------------------------------------------------------------------
(* C14 *)

\* C14: every select_next_category step with a non-empty queue removes the
\* front category, makes it current_category, keeps the rest of the queue in
\* order, sets end false and goes to create_flashcards; with an empty queue it
\* sets current_category to the empty string and end to true and goes to END.
\* The flashcard mapping (and the materials) are unchanged either way.
C14_SelectingFollowsTheRule ==
    [][Runs("select_next_category") =>
          /\ state.categories # <<>> =>
                /\ state'.current_category = state.categories[1]
                /\ state'.categories = [i \in 1..(Len(state.categories) - 1) |-> state.categories[i + 1]]
                /\ state'.end = FALSE
                /\ node' = "create_flashcards"
          /\ state.categories = <<>> =>
                /\ state'.current_category = <<>>
                /\ state'.categories = <<>>
                /\ state'.end = TRUE
                /\ node' = "END"
          /\ state'.flashcards = state.flashcards
          /\ state'.study_materials = state.study_materials]_vars

\* the third select_next_category step took the third of four categories
C14_Witness ==
    /\ Len(trace) = 6 /\ trace[6] = "select_next_category"
    /\ node = "create_flashcards"
    /\ Len(state.categories) = 1
    /\ Len(state.flashcards) = 2
    /\ state.end = FALSE

-----------------------------------------------------------------------------
(* C15 *)

\* ExtractCategories, for every response the planner can give
ListedCategoriesTable ==
    [content \in UNION {PlannerPool(g) : g \in Gateways} |-> ExtractCategories(content)]

\* the categories the planner's response lists
ListedCategories == ListedCategoriesTable[PlanResponse]

RECURSIVE FirstOccurrences(_)
\* seq without the repetitions of an earlier element
FirstOccurrences(seq) ==
    IF seq = <<>> THEN <<>>
    ELSE LET front == SubSeq(seq, 1, Len(seq) - 1)
             last == seq[Len(seq)]
         IN IF \E i \in 1..Len(front) : front[i] = last
            THEN FirstOccurrences(front)
            ELSE Append(FirstOccurrences(front), last)

\* C15: the create_flashcards steps are made one at a time in the order the
\* planner listed the categories, and the keys of the mapping are in that
\* order (a repeated name at its first place), in every state and in the
\* mapping a successful run returns.
C15_KeysInPlannedOrder ==
    Planned =>
        /\ Len(generated) <= Len(ListedCategories)
        /\ GeneratedKeys = SubSeq(ListedCategories, 1, Len(generated))
        /\ DictKeys(state.flashcards) = FirstOccurrences(GeneratedKeys)
        /\ NoError =>
              /\ GeneratedKeys = ListedCategories
              /\ DictKeys(result.flashcards) = FirstOccurrences(ListedCategories)

\* a successful run returned the keys c1, c2, c3 in that order
C15_Witness ==
    /\ NoError
    /\ PlanResponse = LongResponse(3)
    /\ DictKeys(result.flashcards) = <<<<"c1">>, <<"c2">>, <<"c3">>>>

-----------------------------------------------------------------------------
(* C16 *)

\* the line has a token that is not whitespace
NonBlankLine(line) == \E j \in 1..Len(line) : line[j] \notin Whitespace

\* the index in lines of the k-th non-blank line
NonBlankIndex(lines, k) ==
    CHOOSE i \in 1..Len(lines) :
        /\ NonBlankLine(lines[i])
        /\ Cardinality({j \in 1..(i - 1) : NonBlankLine(lines[j])}) = k - 1

\* the N non-blank lines of content, trimmed, in line order, repetitions kept
TrimmedLinesOf(content) ==
    LET lines == SplitLines(content)
        N     == Cardinality({i \in 1..Len(lines) : NonBlankLine(lines[i])})
    IN  [k \in 1..N |-> Strip(lines[NonBlankIndex(lines, k)])]

\* TrimmedLinesOf, for every response the planner can give
TrimmedLinesTable ==
    [content \in UNION {PlannerPool(g) : g \in Gateways} |-> TrimmedLinesOf(content)]

\* the trimmed non-blank lines of the Category Planner's response
TrimmedLines == TrimmedLinesTable[PlanResponse]

\* the number of elements of seq equal to k
Occurrences(seq, k) == Cardinality({i \in 1..Len(seq) : seq[i] = k})

\* C16: the planner keeps repetitions.  What create_categories writes is the
\* N trimmed non-blank lines in line order; a run that returns without error
\* has made N create_flashcards steps, one per occurrence, and its mapping
\* holds one entry per name, the list the last step for that name wrote.
C16_RepetitionsAreKept ==
    (Planned /\ (Len(trace) = 1 \/ NoError)) =>
        LET listed == TrimmedLines
            keys   == GeneratedKeys
        IN  /\ Len(trace) = 1 => state.categories = listed
            /\ NoError =>
                  /\ Len(generated) = Len(listed)
                  /\ keys = listed
                  /\ \A i \in 1..Len(listed) :
                        /\ Occurrences(keys, listed[i]) = Occurrences(listed, listed[i])
                        /\ Occurrences(DictKeys(result.flashcards), listed[i]) = 1
                        /\ DictGet(result.flashcards, listed[i])
                              = generated[LastFor(listed[i])].val

\* the planner listed A twice: two steps were made for A and the mapping holds
\* what the second one wrote
C16_Witness ==
    /\ NoError
    /\ PlanResponse = <<"A", NL, SP, "A">>
    /\ Len(generated) = 2
    /\ generated[1].val # generated[2].val
    /\ result.flashcards = <<[key |-> <<"A">>, val |-> generated[2].val]>>

-----------------------------------------------------------------------------
(* C17 *)

\* the step leaves every state key outside keys as it was
ChangesOnly(keys) == \A k \in StateKeys \ keys : state'[k] = state[k]

\* C17: from the entry into the graph on, the state's study_materials is the
\* text the run was started with; a create_categories step changes no key but
\* categories, a create_flashcards step no key but flashcards.
C17_StagesWriteTheirOwnKeys ==
    /\ [](pc \in {"running", "returned"} => state.study_materials = study_materials.str)
    /\ [][/\ Runs("create_categories") => ChangesOnly({"categories"})
          /\ Runs("create_flashcards") => ChangesOnly({"flashcards"})]_vars

\* a create_flashcards step has just written its list while a category was
\* still queued, and the other keys hold what the earlier steps left
C17_Witness ==
    /\ trace = <<"create_categories", "select_next_category", "create_flashcards">>
    /\ study_materials = PyStr(<<"mitosis">>)
    /\ state.study_materials = <<"mitosis">>
    /\ state.categories = <<<<"B">>>>
    /\ state.current_category = <<"A">>
    /\ state.end = FALSE
    /\ state.flashcards # <<>>

-----------------------------------------------------------------------------
(* C18 *)

\* C18: a result with an error field has the empty mapping as its flashcards,
\* whether a model call failed or the step limit was exceeded, and however
\* many categories the workflow state already holds flashcards for.
C18_ErrorResultHasNoFlashcards ==
    HasError =>
        /\ DOMAIN result = {"flashcards", "error"}
        /\ result.flashcards = <<>>
        /\ \/ SomeCallFailed /\ result.error \in GatewayErrors
           \/ Len(trace) >= RecursionLimit /\ result.error = RecursionError

\* the model call of the second category failed after the first category's
\* cards were in the state: the result holds none of them
C18_Witness ==
    /\ HasError
    /\ result.error = "connection reset"
    /\ state.flashcards = << [key |-> <<"A">>, val |-> Validated[GoodResponse]] >>
    /\ Validated[GoodResponse] # <<>>
    /\ result.flashcards = <<>>

-----------------------------------------------------------------------------
(* C19 *)

\* C19: where end is true the queue is empty and current_category is the
\* empty string; end becomes true only in a select_next_category step that
\* found the queue empty; and from a state where end is true no node runs
\* again and no model call is made.
C19_EndIsFinal ==
    /\ [](state.end => state.categories = <<>> /\ state.current_category = <<>>)
    /\ [][(~state.end /\ state'.end)
             => Runs("select_next_category") /\ state.categories = <<>>]_vars
    /\ [][state.end => trace' = trace /\ invocations' = invocations /\ state'.end]_vars

\* end was set after two categories were generated: the graph is at END with
\* an empty queue and no current category
C19_Witness ==
    /\ state.end
    /\ pc = "running"
    /\ node = "END"
    /\ Len(generated) = 2
    /\ trace[Len(trace)] = "select_next_category"
    /\ state.categories = <<>>
    /\ state.current_category = <<>>

-----------------------------------------------------------------------------
(* C20 *)

\* the set of the elements of seq
Range(seq) == {seq[i] : i \in 1..Len(seq)}

\* C20: the keys of a result without error are exactly the names the planner
\* listed, a name with an empty list included; while the graph runs, the keys
\* of the state's mapping are the names popped from the queue so far, less
\* the current one while its create_flashcards step is still to run.
C20_KeysAreThePlannedNames ==
    Planned =>
        LET listed == TrimmedLines
            popped == Len(listed) - Len(state.categories)
            done   == IF node = "create_flashcards" THEN popped - 1 ELSE popped
        IN  /\ NoError => Range(DictKeys(result.flashcards)) = Range(listed)
            /\ pc = "running" =>
                  /\ 0 <= done /\ done <= Len(listed)
                  /\ Len(generated) = done
                  /\ Range(DictKeys(state.flashcards)) = Range(SubSeq(listed, 1, done))

\* a run returned a mapping with a key for each of the two planned names, one
\* of them with the empty list
C20_Witness ==
    /\ NoError
    /\ PlanResponse = <<"A", NL, "B">>
    /\ Range(DictKeys(result.flashcards)) = {<<"A">>, <<"B">>}
    /\ DictGet(result.flashcards, <<"B">>) = <<>>
    /\ DictGet(result.flashcards, <<"A">>) # <<>>

====
